---------------------------- MODULE Spec2Model ----------------------------
(***************************************************************************)
(* A model of MCPHttpBridge (src/src/bridge.ts): the request-forwarding    *)
(* pipeline handleMCPRequest -> processMCPRequest -> makeHttpRequest ->     *)
(* parseSSEResponse -> sendResponse, with one worker per inbound unit.      *)
(*                                                                         *)
(* Texts (inbound lines, response bodies) are sequences of one-character   *)
(* strings.  JavaScript values are tagged records:                         *)
(*   [t |-> "undefined"], [t |-> "null"], [t |-> "num", n |-> 5],          *)
(*   [t |-> "str", s |-> "2.0"]   a string written as a literal,           *)
(*   [t |-> "text", c |-> <<..>>] a string that is a text (a raw body),    *)
(*   [t |-> "arr", a |-> <<..>>], [t |-> "obj", o |-> [key |-> value]],    *)
(*   [t |-> "err", ...]           an Error object.                         *)
(* A line written to stdout is represented by the JSON value it encodes:   *)
(* JSON.stringify is modelled by what it drops (undefined members), not by *)
(* the characters it produces.                                             *)
(***************************************************************************)
EXTENDS Integers, Sequences, FiniteSets, TLC

(***************************************************************************)
(* Bounds of the model.                                                    *)
(***************************************************************************)
\* the number of inbound units that arrive in one run
MaxUnits == 2
\* the largest configured number of attempts explored
MaxRetries == 3
\* the largest configured number of attempts in the runs of SpecBackoff
MaxAttempts == 4
\* the longest stdin text in the runs of SpecFramer
MaxInput == 5
\* the largest number of lines of an event-stream body in the runs of SpecSse
MaxSseLines == 3

(***************************************************************************)
(* Program constants.                                                      *)
(***************************************************************************)
\* bridge.ts:238  sleep(1000 * attempt)
BaseDelay == 1000
\* bridge.ts:115
ParseErrorCode == -32700
\* bridge.ts:247
InternalErrorCode == -32603
\* bridge.ts:253
ServerErrorCode == -32000
\* bridge.ts:257
ConnRefusedCode == -32001
\* bridge.ts:260
TimeoutCode == -32002
\* bridge.ts:300  line.slice(6)
DataPrefixLen == 6

(***************************************************************************)
(* JavaScript values.                                                      *)
(***************************************************************************)
Undefined == [t |-> "undefined"]
JNull == [t |-> "null"]
JNum(n) == [t |-> "num", n |-> n]
JStr(s) == [t |-> "str", s |-> s]
JText(c) == [t |-> "text", c |-> c]
JArr(a) == [t |-> "arr", a |-> a]
JObj(o) == [t |-> "obj", o |-> o]
EmptyObj == JObj(<<>>)

\* a TypeError thrown by the runtime (property access on null/undefined,
\* the in operator applied to a primitive)
TypeError(msg) ==
    [t |-> "err", name |-> "TypeError", response |-> Undefined,
     code |-> Undefined, message |-> JStr(msg), stack |-> JStr("stack")]

\* the reason phrase of a status
StatusText(status) ==
    CASE status = 400 -> "Bad Request"
      [] status = 499 -> "Client Closed Request"
      [] status = 500 -> "Internal Server Error"
      [] status = 503 -> "Service Unavailable"
      [] OTHER -> "Unknown"

\* an error thrown by the HTTP client for a response outside 2xx
HttpError(status) ==
    [t |-> "err", name |-> "AxiosError",
     response |-> [t |-> "response", status |-> status,
                   statusText |-> StatusText(status),
                   data |-> JText(<<"e">>)],
     code |-> JStr("ERR_BAD_RESPONSE"),
     message |-> JStr("Request failed"), stack |-> JStr("stack")]

\* an error thrown by the HTTP client when no response was received
NetError(code) ==
    [t |-> "err", name |-> "AxiosError", response |-> Undefined,
     code |-> JStr(code), message |-> JStr("network: " \o code),
     stack |-> JStr("stack")]

\* obj.key, for a value that is an object; undefined for a missing member
\* and for every primitive other than null and undefined
Member(v, key) ==
    IF v.t = "obj" /\ key \in DOMAIN v.o THEN v.o[key] ELSE Undefined

\* JavaScript truthiness: undefined, null, 0 and '' are falsy
Truthy(v) ==
    CASE v.t = "undefined" -> FALSE
      [] v.t = "null" -> FALSE
      [] v.t = "num" -> v.n # 0
      [] v.t = "str" -> v.s # ""
      [] v.t = "text" -> v.c # <<>>
      [] OTHER -> TRUE

\* whether `key in v` throws: the in operator needs an object on its right
InThrows(v) == v.t \notin {"obj", "arr", "err"}

\* `key in v` for an object or an array (no named key is in an array)
In(key, v) == v.t = "obj" /\ key \in DOMAIN v.o

\* Object.keys(v).length for a value that is neither null nor undefined
ObjectKeysLength(v) ==
    CASE v.t = "obj" -> Cardinality(DOMAIN v.o)
      [] v.t = "arr" -> Len(v.a)
      [] v.t = "text" -> Len(v.c)
      [] v.t = "str" -> Len(v.s)
      [] OTHER -> 0

(***************************************************************************)
(* Texts.                                                                  *)
(***************************************************************************)
\* {"id":1}
ReqId1 ==
    <<"{", "\"", "i", "d", "\"", ":", "1", "}">>
\* {"id":2}
ReqId2 ==
    <<"{", "\"", "i", "d", "\"", ":", "2", "}">>
\* {"m":0}
ReqNote ==
    <<"{", "\"", "m", "\"", ":", "0", "}">>
\* null
TxtNull ==
    <<"n", "u", "l", "l">>
\* {bad
TxtBad ==
    <<"{", "b", "a", "d">>
\* {}
TxtEmptyObj ==
    <<"{", "}">>
\* 5
TxtNum ==
    <<"5">>
\* hi
TxtHello ==
    <<"h", "i">>
\* {"x":1}
TxtObj ==
    <<"{", "\"", "x", "\"", ":", "1", "}">>
\* {"jsonrpc":"2.0","id":9,"result":7}
TxtFullResult ==
    <<"{", "\"", "j", "s", "o", "n", "r", "p", "c", "\"", ":", "\"", "2", ".", "0", "\"", ",", "\"", "i", "d", "\"", ":", "9", ",", "\"", "r", "e", "s", "u", "l", "t", "\"", ":", "7", "}">>
\* {"jsonrpc":"2.0","error":{}}
TxtFullError ==
    <<"{", "\"", "j", "s", "o", "n", "r", "p", "c", "\"", ":", "\"", "2", ".", "0", "\"", ",", "\"", "e", "r", "r", "o", "r", "\"", ":", "{", "}", "}">>
\* {"jsonrpc":"2.0","result":7,"error":{}}
TxtFullBoth ==
    <<"{", "\"", "j", "s", "o", "n", "r", "p", "c", "\"", ":", "\"", "2", ".", "0", "\"", ",", "\"", "r", "e", "s", "u", "l", "t", "\"", ":", "7", ",", "\"", "e", "r", "r", "o", "r", "\"", ":", "{", "}", "}">>
\* {"jsonrpc":"1.0","result":7}
TxtOldRpc ==
    <<"{", "\"", "j", "s", "o", "n", "r", "p", "c", "\"", ":", "\"", "1", ".", "0", "\"", ",", "\"", "r", "e", "s", "u", "l", "t", "\"", ":", "7", "}">>
\* [1]
TxtArr ==
    <<"[", "1", "]">>
\* data:
DataPrefix ==
    <<"d", "a", "t", "a", ":", " ">>
\* [DONE]
DoneMarker ==
    <<"[", "D", "O", "N", "E", "]">>
\* : ping\n\n
SseNoData ==
    <<":", " ", "p", "i", "n", "g", "\n", "\n">>
\* data: {bad\n\n
SseBad ==
    <<"d", "a", "t", "a", ":", " ", "{", "b", "a", "d", "\n", "\n">>
\* data: {"x"\ndata: :1}\n\ndata: [DONE]\n\ndata: 5\n
SseSplitDone ==
    <<"d", "a", "t", "a", ":", " ", "{", "\"", "x", "\"", "\n", "d", "a", "t", "a", ":", " ", ":", "1", "}", "\n", "\n", "d", "a", "t", "a", ":", " ", "[", "D", "O", "N", "E", "]", "\n", "\n", "d", "a", "t", "a", ":", " ", "5", "\n">>

\* JSON.parse on the texts of this model: the value of a JSON document,
\* a failure (ok = FALSE) for every text that is not one
JSONParse(text) ==
    CASE text = ReqId1 -> [ok |-> TRUE, v |-> JObj([id |-> JNum(1)])]
      [] text = ReqId2 -> [ok |-> TRUE, v |-> JObj([id |-> JNum(2)])]
      [] text = ReqNote -> [ok |-> TRUE, v |-> JObj([m |-> JNum(0)])]
      [] text = TxtNull -> [ok |-> TRUE, v |-> JNull]
      [] text = TxtEmptyObj -> [ok |-> TRUE, v |-> EmptyObj]
      [] text = TxtNum -> [ok |-> TRUE, v |-> JNum(5)]
      [] text = TxtObj -> [ok |-> TRUE, v |-> JObj([x |-> JNum(1)])]
      [] text = TxtFullResult ->
            [ok |-> TRUE,
             v |-> JObj([jsonrpc |-> JStr("2.0"), id |-> JNum(9),
                         result |-> JNum(7)])]
      [] text = TxtFullError ->
            [ok |-> TRUE,
             v |-> JObj([jsonrpc |-> JStr("2.0"), error |-> EmptyObj])]
      [] text = TxtFullBoth ->
            [ok |-> TRUE,
             v |-> JObj([jsonrpc |-> JStr("2.0"), result |-> JNum(7),
                         error |-> EmptyObj])]
      [] text = TxtOldRpc ->
            [ok |-> TRUE,
             v |-> JObj([jsonrpc |-> JStr("1.0"), result |-> JNum(7)])]
      [] text = TxtArr -> [ok |-> TRUE, v |-> JArr(<<JNum(1)>>)]
      [] OTHER -> [ok |-> FALSE, v |-> Undefined]

(***************************************************************************)
(* String helpers of the runtime, on texts.                                *)
(***************************************************************************)
Whitespace == {" ", "\t", "\r", "\n"}

RECURSIVE TrimStart(_)
TrimStart(text) ==
    IF text # <<>> /\ Head(text) \in Whitespace
    THEN TrimStart(Tail(text)) ELSE text

RECURSIVE TrimEnd(_)
TrimEnd(text) ==
    IF text # <<>> /\ text[Len(text)] \in Whitespace
    THEN TrimEnd(SubSeq(text, 1, Len(text) - 1)) ELSE text

\* String.prototype.trim
Trim(text) == TrimEnd(TrimStart(text))

\* String.prototype.startsWith
StartsWith(text, prefix) ==
    Len(text) >= Len(prefix) /\ SubSeq(text, 1, Len(prefix)) = prefix

\* text.split('\n'): the pieces between the terminators, the last one
\* (possibly empty) included
RECURSIVE SplitFrom(_, _, _)
SplitFrom(text, i, cur) ==
    IF i > Len(text) THEN <<cur>>
    ELSE IF text[i] = "\n"
         THEN <<cur>> \o SplitFrom(text, i + 1, <<>>)
         ELSE SplitFrom(text, i + 1, Append(cur, text[i]))

SplitLines(text) == SplitFrom(text, 1, <<>>)

(***************************************************************************)
(* parseSSEResponse (bridge.ts:294-320).                                   *)
(***************************************************************************)
\* the loop over the lines: jsonData after the lines from i on, stopping at
\* a data line whose trimmed text is [DONE]
\* the loop with continue for break: the data lines after [DONE] are
\* appended as well
RECURSIVE SseAccumulate_SkipsDone(_, _, _)
SseAccumulate_SkipsDone(lines, i, jsonData) ==
    IF i > Len(lines) THEN jsonData
    ELSE IF StartsWith(lines[i], DataPrefix)
         THEN LET data == SubSeq(lines[i], DataPrefixLen + 1, Len(lines[i]))
              IN  IF Trim(data) = DoneMarker
                  THEN SseAccumulate_SkipsDone(lines, i + 1, jsonData)
                  ELSE SseAccumulate_SkipsDone(lines, i + 1, jsonData \o data)
         ELSE SseAccumulate_SkipsDone(lines, i + 1, jsonData)

RECURSIVE SseAccumulate(_, _, _)
SseAccumulate(lines, i, jsonData) ==
    IF i > Len(lines) THEN jsonData
    ELSE IF StartsWith(lines[i], DataPrefix)
         THEN LET data == SubSeq(lines[i], DataPrefixLen + 1, Len(lines[i]))
              IN  IF Trim(data) = DoneMarker
                  THEN jsonData
                  ELSE SseAccumulate(lines, i + 1, jsonData \o data)
         ELSE SseAccumulate(lines, i + 1, jsonData)

SsePlaceholder == JObj([error |-> JStr("Failed to parse SSE response")])

\* parseSSEResponse returning null when jsonData does not parse
parseSSEResponse_NullOnFailure(sseText) ==
    LET jsonData == SseAccumulate(SplitLines(sseText), 1, <<>>)
    IN  IF jsonData # <<>> /\ JSONParse(jsonData).ok
        THEN JSONParse(jsonData).v
        ELSE JNull

parseSSEResponse(sseText) ==
    LET jsonData == SseAccumulate(SplitLines(sseText), 1, <<>>)
    IN  IF jsonData # <<>>
        THEN IF JSONParse(jsonData).ok
             THEN JSONParse(jsonData).v
             ELSE SsePlaceholder
        ELSE JNull

(***************************************************************************)
(* makeHttpRequest, the parts that are pure (bridge.ts:177-244).           *)
(***************************************************************************)
\* an attempt that never sets requestConfig.headers
SessionHeader_Dropped(sid) == Undefined

\* the session header of an attempt: requestConfig.headers is set only when
\* this.sessionId is truthy (bridge.ts:189-193)
SessionHeader(sid) == IF Truthy(sid) THEN sid ELSE Undefined

\* the capture without the test !this.sessionId
CaptureSessionId_Overwrite(sid, hdr) ==
    IF Truthy(hdr) THEN hdr ELSE sid

\* the capture testing the header for presence instead of truthiness
CaptureSessionId_AdoptEmpty(sid, hdr) ==
    IF hdr # Undefined /\ ~Truthy(sid) THEN hdr ELSE sid

\* the session id after a successful response whose mcp-session-id header is
\* hdr (bridge.ts:198-204)
CaptureSessionId(sid, hdr) ==
    IF Truthy(hdr) /\ ~Truthy(sid) THEN hdr ELSE sid

\* contentType.includes('text/event-stream'), on the content types of this
\* model
IncludesEventStream(ct) ==
    ct \in {"text/event-stream", "text/event-stream; charset=utf-8"}

\* the data of the response makeHttpRequest returns (bridge.ts:206-226)
NormalizeResponse(contentType, body) ==
    IF Truthy(contentType) /\ IncludesEventStream(contentType.s)
    THEN parseSSEResponse(body)
    ELSE IF JSONParse(body).ok THEN JSONParse(body).v ELSE JText(body)

\* the test of bridge.ts:232 with > for >=: a 400 is retried
IsClientError_Above400(error) ==
    /\ Truthy(error.response)
    /\ error.response.status > 400
    /\ error.response.status < 500

\* error.response.status >= 400 && error.response.status < 500
\* (bridge.ts:232)
IsClientError(error) ==
    /\ Truthy(error.response)
    /\ error.response.status >= 400
    /\ error.response.status < 500

\* the test of bridge.ts:237 one attempt short
ShouldSleep_OneShort(attempt, retries) == attempt < retries - 1

\* whether the loop sleeps after the failure of this attempt (bridge.ts:237)
ShouldSleep(attempt, retries) == attempt < retries

\* the same delay before every retry
BackoffDelay_Constant(attempt) == BaseDelay

\* a delay that doubles: base * 2^(attempt - 1)
BackoffDelay_Doubling(attempt) == BaseDelay * 2 ^ (attempt - 1)

\* the delay of that sleep (bridge.ts:238)
BackoffDelay(attempt) == BaseDelay * attempt

(***************************************************************************)
(* createErrorResponse (bridge.ts:246-272).  A call either returns a       *)
(* response or throws: [kind |-> "return", v |-> ..] or                    *)
(* [kind |-> "throw", v |-> error].                                        *)
(***************************************************************************)
Return(v) == [kind |-> "return", v |-> v]
Throw(e) == [kind |-> "throw", v |-> e]

ErrorDetail(code, message, data) ==
    JObj([code |-> JNum(code), message |-> message, data |-> data])

MCPResponse(id, detail) ==
    JObj([jsonrpc |-> JStr("2.0"), id |-> id, error |-> detail])

\* createErrorResponse answering a refused connection as a timeout
createErrorResponse_RefusedAsTimeout(id, error) ==
    IF error.t \in {"undefined", "null"}
    THEN \* error.response on undefined
         Throw(TypeError("Cannot read properties of undefined"))
    ELSE IF Truthy(error.response)
    THEN Return(MCPResponse(id,
            ErrorDetail(ServerErrorCode,
                JStr("HTTP " \o ToString(error.response.status) \o ": "
                     \o error.response.statusText),
                error.response.data)))
    ELSE IF error.code = JStr("ECONNREFUSED")
    THEN Return(MCPResponse(id,
            ErrorDetail(TimeoutCode, JStr("Service timeout"), Undefined)))
    ELSE IF error.code = JStr("ETIMEDOUT")
    THEN Return(MCPResponse(id,
            ErrorDetail(TimeoutCode, JStr("Service timeout"), Undefined)))
    ELSE \* error instanceof Error
         Return(MCPResponse(id,
            ErrorDetail(InternalErrorCode, error.message, error.stack)))

\* bridge.ts:246-272
createErrorResponse(id, error) ==
    IF error.t \in {"undefined", "null"}
    THEN \* error.response on undefined
         Throw(TypeError("Cannot read properties of undefined"))
    ELSE IF Truthy(error.response)
    THEN Return(MCPResponse(id,
            ErrorDetail(ServerErrorCode,
                JStr("HTTP " \o ToString(error.response.status) \o ": "
                     \o error.response.statusText),
                error.response.data)))
    ELSE IF error.code = JStr("ECONNREFUSED")
    THEN Return(MCPResponse(id,
            ErrorDetail(ConnRefusedCode,
                JStr("Service unavailable - connection refused"), Undefined)))
    ELSE IF error.code = JStr("ETIMEDOUT")
    THEN Return(MCPResponse(id,
            ErrorDetail(TimeoutCode, JStr("Service timeout"), Undefined)))
    ELSE \* error instanceof Error
         Return(MCPResponse(id,
            ErrorDetail(InternalErrorCode, error.message, error.stack)))

(***************************************************************************)
(* processMCPRequest (bridge.ts:124-175), from the point where             *)
(* makeHttpRequest has settled: relay is Return(responseData) or           *)
(* Throw(error).                                                           *)
(***************************************************************************)
\* request.id / request.method throw when request is null
RequestThrows(request) == request.t \in {"null", "undefined"}

RequestTypeError == TypeError("Cannot read properties of null")

\* bridge.ts:138 with the last test off by one: an object with one member
\* counts as empty
IsEmptyResponse_OffByOne(responseData) ==
    \/ ~Truthy(responseData)
    \/ responseData = JText(<<>>)
    \/ ObjectKeysLength(responseData) <= 1

\* bridge.ts:138
IsEmptyResponse(responseData) ==
    \/ ~Truthy(responseData)
    \/ responseData = JText(<<>>)
    \/ ObjectKeysLength(responseData) = 0

\* bridge.ts:145
IsFullReply(responseData) ==
    /\ Truthy(responseData)
    /\ Member(responseData, "jsonrpc") = JStr("2.0")
    /\ (In("result", responseData) \/ In("error", responseData))

\* the spread written after the id, {id: request.id, ...responseData}: an
\* id of the upstream reply wins
Restamp_UpstreamIdWins(responseData, id) ==
    JObj([k \in DOMAIN responseData.o \cup {"id"} |->
            IF k \in DOMAIN responseData.o THEN responseData.o[k] ELSE id])

\* bridge.ts:147-150  {...responseData, id: request.id}
Restamp(responseData, id) ==
    JObj([k \in DOMAIN responseData.o \cup {"id"} |->
            IF k = "id" THEN id ELSE responseData.o[k]])

\* bridge.ts:160-164
Wrap(responseData, id) ==
    JObj([jsonrpc |-> JStr("2.0"), id |-> id, result |-> responseData])

\* the try block after the await (bridge.ts:130-170)
ProcessTry(request, responseData, verbose) ==
    IF verbose /\ RequestThrows(request)
    THEN Throw(RequestTypeError)
    ELSE IF verbose /\ InThrows(responseData)
    THEN Throw(TypeError("Cannot use 'in' operator"))
    ELSE IF IsEmptyResponse(responseData)
    THEN Return(JNull)
    ELSE IF RequestThrows(request)
    THEN Throw(RequestTypeError)
    ELSE IF IsFullReply(responseData)
    THEN Return(Restamp(responseData, Member(request, "id")))
    ELSE Return(Wrap(responseData, Member(request, "id")))

\* the catch block rethrowing instead of building a reply
ProcessCatch_Rethrow(request, error) == Throw(error)

\* the catch block (bridge.ts:172-174)
ProcessCatch(request, error) ==
    IF RequestThrows(request)
    THEN Throw(RequestTypeError)
    ELSE createErrorResponse(Member(request, "id"), error)

processMCPRequest(request, relay, verbose) ==
    IF relay.kind = "throw"
    THEN ProcessCatch(request, relay.v)
    ELSE LET r == ProcessTry(request, relay.v, verbose)
         IN  IF r.kind = "throw" THEN ProcessCatch(request, r.v) ELSE r

(***************************************************************************)
(* handleMCPRequest (bridge.ts:93-122).                                    *)
(***************************************************************************)
\* the parse error reply with the code of an invalid request
ParseErrorResponse_InvalidRequest(message) ==
    MCPResponse(Undefined,
        ErrorDetail(-32600, JStr("Invalid JSON-RPC request"), message))

\* bridge.ts:111-119
ParseErrorResponse(message) ==
    MCPResponse(Undefined,
        ErrorDetail(ParseErrorCode, JStr("Invalid JSON-RPC request"), message))

SyntaxErrorMessage == JStr("Unexpected token")

\* what handleMCPRequest passes to sendResponse once processMCPRequest has
\* settled with r: a response, or JNull when it sends nothing
ResponseToSend(r) ==
    IF r.kind = "throw"
    THEN \* error instanceof Error ? error.message : String(error)
         ParseErrorResponse(IF r.v.t = "err" THEN r.v.message
                            ELSE JStr(r.v.t))
    ELSE r.v

(***************************************************************************)
(* sendResponse (bridge.ts:274-292).                                       *)
(***************************************************************************)
\* JSON.stringify leaves out the members whose value is undefined
RECURSIVE JSONStringify(_)
JSONStringify(v) ==
    IF v.t = "obj"
    THEN JObj([k \in {m \in DOMAIN v.o : v.o[m].t # "undefined"} |->
                 JSONStringify(v.o[k])])
    ELSE v

(***************************************************************************)
(* The environment: what arrives on stdin and what the upstream answers.   *)
(***************************************************************************)
\* the units the line framer hands to handleMCPRequest: the u-th unit is a
\* request (successive requests alternate between two ids), a notification,
\* the text null, or a text that is not JSON
RequestLines(u) ==
    {IF u % 2 = 1 THEN ReqId1 ELSE ReqId2, ReqNote, TxtNull, TxtBad}

\* the values of config.retries
RetriesValues == (-1) .. MaxRetries

SessionTokens == {JStr("s1"), JStr("s2")}

\* the mcp-session-id header of a response: absent, empty or a token
SessionHeaders == {Undefined, JStr("")} \cup SessionTokens

JsonType == JStr("application/json")
SseType == JStr("text/event-stream")

\* content type and body of the successful responses
OkBodies ==
    {<<JsonType, <<>>>>, <<JsonType, TxtEmptyObj>>, <<JsonType, TxtNull>>,
     <<JsonType, TxtNum>>, <<Undefined, TxtHello>>, <<JsonType, TxtObj>>,
     <<JsonType, TxtFullResult>>, <<JsonType, TxtFullError>>,
     <<JsonType, TxtFullBoth>>, <<JsonType, TxtOldRpc>>,
     <<JsonType, TxtArr>>,
     <<SseType, SseNoData>>, <<SseType, SseBad>>,
     <<JStr("text/event-stream; charset=utf-8"), SseSplitDone>>}

\* the first of OkBodies with every session header, every one of OkBodies
\* without a session header: capturing the header does not read the body
\* (bridge.ts:198-204)
OkOutcomes ==
    {[kind |-> "ok", session |-> h, contentType |-> JsonType,
      body |-> TxtFullResult] : h \in SessionHeaders}
    \cup {[kind |-> "ok", session |-> Undefined, contentType |-> b[1],
           body |-> b[2]] : b \in OkBodies}

ClientStatuses == {400, 499}
ServerStatuses == {500, 503}
NetCodes == {"ECONNREFUSED", "ETIMEDOUT", "ENOTFOUND"}

FailOutcomes ==
    {[kind |-> "fail", error |-> HttpError(st)] :
        st \in ClientStatuses \cup ServerStatuses}
    \cup {[kind |-> "fail", error |-> NetError(c)] : c \in NetCodes}

\* the outcomes of process.stdout.write
WriteOutcomes == {"ok", "epipe", "error"}

(***************************************************************************)
(* The state.                                                              *)
(***************************************************************************)
VARIABLES
    config,           \* BridgeConfig.retries and the MCP_BRIDGE_VERBOSE switch
    sessionId,        \* this.sessionId
    units,            \* one worker per unit handed to handleMCPRequest
    stdout,           \* the lines written, each with the unit it was for
    stdoutDestroyed,  \* process.stdout.destroyed
    exited,           \* process.exit was called
    stdin             \* the line framer of start (bridge.ts:59-86)

vars == <<config, sessionId, units, stdout, stdoutDestroyed, exited, stdin>>

\* the framer:
\*   input   the whole text that arrives on stdin
\*   rest    the part of it not yet delivered in a 'data' event
\*   buffer  the variable buffer
\*   ended   the 'end' event was delivered
\*   handed  the arguments of the calls of handleMCPRequest, in order
Framer(input) ==
    [input |-> input, rest |-> input, buffer |-> <<>>, ended |-> FALSE,
     handed |-> <<>>]

Init ==
    /\ config \in [retries : RetriesValues, verbose : BOOLEAN]
    /\ sessionId = JNull
    /\ units = <<>>
    /\ stdout = <<>>
    /\ stdoutDestroyed = FALSE
    /\ exited = FALSE
    /\ stdin = Framer(<<>>)

\* sendResponse (bridge.ts:274-292) for unit u; w is what the write does
sendResponse(u, response, w) ==
    IF stdoutDestroyed
    THEN /\ stdout' = stdout
         /\ exited' = exited
    ELSE /\ stdout' = IF w = "ok"
                      THEN Append(stdout,
                               [unit |-> u, msg |-> JSONStringify(response)])
                      ELSE stdout
         /\ exited' = (exited \/ w = "epipe")

\* the end of handleMCPRequest for unit u, whose worker ends as rec:
\* r is what processMCPRequest settled with
Finish(u, rec, r, w) ==
    /\ units' = IF u \in DOMAIN units
                 THEN [units EXCEPT ![u] = rec]
                 ELSE Append(units, rec)
    /\ IF ResponseToSend(r) = JNull
       THEN /\ stdout' = stdout
            /\ exited' = exited
       ELSE sendResponse(u, ResponseToSend(r), w)

(***************************************************************************)
(* The workers.  A worker is at an await of makeHttpRequest: pc = "http"   *)
(* (the post of bridge.ts:195 is in flight), pc = "sleep" (the sleep of    *)
(* bridge.ts:238), or it is over: pc = "done".                             *)
(*   line       the unit's text                                            *)
(*   req        the parsed request, undefined when the text did not parse  *)
(*   attempt    the loop variable of makeHttpRequest                       *)
(*   posts      the number of posts issued                                 *)
(*   hdr        the mcp-session-id header of the last post, or undefined   *)
(*   lastError  the variable lastError                                     *)
(*   delays     the delays slept, in order                                 *)
(*   relay      how makeHttpRequest settled: Return(data), Throw(error),   *)
(*              "pending" before, "none" when it was never called          *)
(*   resp       the 2xx response, once there is one                        *)
(***************************************************************************)
Pending == [kind |-> "pending", v |-> Undefined]
NotCalled == [kind |-> "none", v |-> Undefined]

SyntaxError ==
    [t |-> "err", name |-> "SyntaxError", response |-> Undefined,
     code |-> Undefined, message |-> SyntaxErrorMessage,
     stack |-> JStr("stack")]

NoResponse == [session |-> Undefined, contentType |-> Undefined, body |-> <<>>]

NewUnit(line, req) ==
    [line |-> line, req |-> req, pc |-> "done", attempt |-> 1, posts |-> 0,
     hdr |-> Undefined, lastError |-> Undefined, delays |-> <<>>,
     relay |-> NotCalled, resp |-> NoResponse]

\* the loop condition of makeHttpRequest (bridge.ts:181)
LoopContinues(attempt, retries) == attempt <= retries

\* a dispatcher that awaits each handleMCPRequest before it takes the next
\* unit
Dispatch_AwaitsEarlier(line, w) ==
    /\ ~exited
    /\ Len(units) < MaxUnits
    /\ \A v \in DOMAIN units : units[v].pc = "done"
    /\ LET u == Len(units) + 1
           p == JSONParse(line)
       IN  IF ~p.ok
           THEN Finish(u, NewUnit(line, Undefined), Throw(SyntaxError), w)
           ELSE IF config.verbose /\ RequestThrows(p.v)
           THEN \* request.method in the verbose log (bridge.ts:99)
                Finish(u, NewUnit(line, p.v), Throw(RequestTypeError), w)
           ELSE IF LoopContinues(1, config.retries)
           THEN /\ units' = Append(units,
                       [NewUnit(line, p.v) EXCEPT
                           !.pc = "http", !.posts = 1,
                           !.hdr = SessionHeader(sessionId),
                           !.relay = Pending])
                /\ UNCHANGED <<stdout, exited>>
           ELSE \* the loop body never runs: throw lastError, undefined
                Finish(u,
                       [NewUnit(line, p.v) EXCEPT !.relay = Throw(Undefined)],
                       processMCPRequest(p.v, Throw(Undefined),
                                         config.verbose),
                       w)
    /\ UNCHANGED <<config, sessionId, stdoutDestroyed, stdin>>

\* stdin 'data'/'end' hand one unit to handleMCPRequest (bridge.ts:73, 82),
\* which runs to its first await: JSON.parse, then processMCPRequest and
\* makeHttpRequest up to the first post
Dispatch(line, w) ==
    /\ ~exited
    /\ Len(units) < MaxUnits
    /\ LET u == Len(units) + 1
           p == JSONParse(line)
       IN  IF ~p.ok
           THEN Finish(u, NewUnit(line, Undefined), Throw(SyntaxError), w)
           ELSE IF config.verbose /\ RequestThrows(p.v)
           THEN \* request.method in the verbose log (bridge.ts:99)
                Finish(u, NewUnit(line, p.v), Throw(RequestTypeError), w)
           ELSE IF LoopContinues(1, config.retries)
           THEN /\ units' = Append(units,
                       [NewUnit(line, p.v) EXCEPT
                           !.pc = "http", !.posts = 1,
                           !.hdr = SessionHeader(sessionId),
                           !.relay = Pending])
                /\ UNCHANGED <<stdout, exited>>
           ELSE \* the loop body never runs: throw lastError, undefined
                Finish(u,
                       [NewUnit(line, p.v) EXCEPT !.relay = Throw(Undefined)],
                       processMCPRequest(p.v, Throw(Undefined),
                                         config.verbose),
                       w)
    /\ UNCHANGED <<config, sessionId, stdoutDestroyed, stdin>>

\* the post of unit u resolves with the 2xx response o (bridge.ts:195-226),
\* and processMCPRequest and handleMCPRequest run to their end
HttpSuccess(u, o, w) ==
    /\ ~exited
    /\ u \in DOMAIN units
    /\ units[u].pc = "http"
    /\ sessionId' = CaptureSessionId(sessionId, o.session)
    /\ LET data == NormalizeResponse(o.contentType, o.body)
       IN  Finish(u,
                  [units[u] EXCEPT
                      !.pc = "done", !.relay = Return(data),
                      !.lastError = Undefined,
                      !.resp = [session |-> o.session,
                                contentType |-> o.contentType,
                                body |-> o.body]],
                  processMCPRequest(units[u].req, Return(data),
                                    config.verbose),
                  w)
    /\ UNCHANGED <<config, stdoutDestroyed, stdin>>

\* the post of unit u rejects with o.error (bridge.ts:228-243)
HttpFailure(u, o, w) ==
    /\ ~exited
    /\ u \in DOMAIN units
    /\ units[u].pc = "http"
    /\ IF IsClientError(o.error)
          \/ ~ShouldSleep(units[u].attempt, config.retries)
       THEN \* throw error (bridge.ts:233), or the loop ends and lastError
            \* is thrown (bridge.ts:243)
            Finish(u,
                   [units[u] EXCEPT
                       !.pc = "done", !.lastError = o.error,
                       !.relay = Throw(o.error)],
                   processMCPRequest(units[u].req, Throw(o.error),
                                     config.verbose),
                   w)
       ELSE /\ units' = [units EXCEPT
                           ![u].pc = "sleep",
                           ![u].lastError = o.error,
                           ![u].delays =
                               Append(@, BackoffDelay(units[u].attempt))]
            /\ UNCHANGED <<stdout, exited>>
    /\ UNCHANGED <<config, sessionId, stdoutDestroyed, stdin>>

\* a retry that reuses the request configuration of the first attempt
SleepDone_KeepsHeader(u) ==
    /\ ~exited
    /\ u \in DOMAIN units
    /\ units[u].pc = "sleep"
    /\ LoopContinues(units[u].attempt + 1, config.retries)
    /\ units' = [units EXCEPT
                   ![u].pc = "http",
                   ![u].attempt = @ + 1,
                   ![u].posts = @ + 1]
    /\ UNCHANGED <<config, sessionId, stdout, stdoutDestroyed, exited, stdin>>

\* the sleep of unit u is over: the next iteration starts and posts
\* (bridge.ts:181-195)
SleepDone(u) ==
    /\ ~exited
    /\ u \in DOMAIN units
    /\ units[u].pc = "sleep"
    /\ LoopContinues(units[u].attempt + 1, config.retries)
    /\ units' = [units EXCEPT
                   ![u].pc = "http",
                   ![u].attempt = @ + 1,
                   ![u].posts = @ + 1,
                   ![u].hdr = SessionHeader(sessionId)]
    /\ UNCHANGED <<config, sessionId, stdout, stdoutDestroyed, exited, stdin>>

\* the downstream closes the pipe: process.stdout becomes destroyed
StdoutDestroyed ==
    /\ ~exited
    /\ ~stdoutDestroyed
    /\ stdoutDestroyed' = TRUE
    /\ UNCHANGED <<config, sessionId, units, stdout, exited, stdin>>

\* SIGTERM or SIGINT (bridge.ts:89-90, 326-329)
shutdown ==
    /\ ~exited
    /\ exited' = TRUE
    /\ UNCHANGED <<config, sessionId, units, stdout, stdoutDestroyed, stdin>>

(***************************************************************************)
(* Spec: the bridge with its downstream open and no signal.                *)
(* SpecSink: the same with a downstream that may close, writes that may    *)
(* throw, and signals.                                                     *)
(***************************************************************************)
Next ==
    \/ \E line \in RequestLines(Len(units) + 1) : Dispatch(line, "ok")
    \/ \E u \in 1 .. MaxUnits, o \in OkOutcomes : HttpSuccess(u, o, "ok")
    \/ \E u \in 1 .. MaxUnits, o \in FailOutcomes : HttpFailure(u, o, "ok")
    \/ \E u \in 1 .. MaxUnits : SleepDone(u)

Spec == Init /\ [][Next]_vars

\* the upstream of SpecSink: an empty body and a payload, a 4xx and a 5xx;
\* sendResponse does not read what it writes (bridge.ts:274-292)
SinkOkOutcomes ==
    {o \in OkOutcomes :
        o.session = Undefined /\ o.body \in {<<>>, TxtObj}}

SinkFailOutcomes ==
    {o \in FailOutcomes : o.error \in {HttpError(400), HttpError(503)}}

NextSink ==
    \/ \E line \in RequestLines(Len(units) + 1), w \in WriteOutcomes :
          Dispatch(line, w)
    \/ \E u \in 1 .. MaxUnits, o \in SinkOkOutcomes, w \in WriteOutcomes :
          HttpSuccess(u, o, w)
    \/ \E u \in 1 .. MaxUnits, o \in SinkFailOutcomes, w \in WriteOutcomes :
          HttpFailure(u, o, w)
    \/ \E u \in 1 .. MaxUnits : SleepDone(u)
    \/ StdoutDestroyed
    \/ shutdown

SpecSink == Init /\ [][NextSink]_vars

\* SpecBackoff: the bridge with up to MaxAttempts attempts configured and
\* an upstream that answers with an empty body, a payload or any failure
InitBackoff ==
    /\ config \in [retries : 1 .. MaxAttempts, verbose : {FALSE}]
    /\ sessionId = JNull
    /\ units = <<>>
    /\ stdout = <<>>
    /\ stdoutDestroyed = FALSE
    /\ exited = FALSE
    /\ stdin = Framer(<<>>)

NextBackoff ==
    \/ \E line \in RequestLines(Len(units) + 1) : Dispatch(line, "ok")
    \/ \E u \in 1 .. MaxUnits, o \in SinkOkOutcomes : HttpSuccess(u, o, "ok")
    \/ \E u \in 1 .. MaxUnits, o \in FailOutcomes : HttpFailure(u, o, "ok")
    \/ \E u \in 1 .. MaxUnits : SleepDone(u)

SpecBackoff == InitBackoff /\ [][NextBackoff]_vars

(***************************************************************************)
(* The line framer of start (bridge.ts:59-86), run on its own: SpecFramer  *)
(* delivers a text on stdin in chunks of any sizes and then the end of     *)
(* input, and records each call of handleMCPRequest.                       *)
(***************************************************************************)
\* the characters of the stdin texts: a letter, a blank and the terminator
FramerAlphabet == {"a", " ", "\n"}

FramerInputs ==
    UNION {[1 .. n -> FramerAlphabet] : n \in 0 .. MaxInput}

\* a framer that forgets the partial line at the end of a chunk
BufferAfter_Dropped(lines) == <<>>

\* buffer = lines.pop() || '' (bridge.ts:69)
BufferAfter(lines) == lines[Len(lines)]

\* the calls of the for loop over the complete lines (bridge.ts:71-77):
\* handleMCPRequest(line.trim()) for every line with a non-empty trim
RECURSIVE HandLines(_, _)
HandLines(lines, i) ==
    IF i > Len(lines) THEN <<>>
    ELSE IF Trim(lines[i]) # <<>>
         THEN <<Trim(lines[i])>> \o HandLines(lines, i + 1)
         ELSE HandLines(lines, i + 1)

\* the 'data' handler for the next n characters of stdin (bridge.ts:64-78)
StdinData(n) ==
    /\ ~stdin.ended
    /\ n \in 1 .. Len(stdin.rest)
    /\ LET chunk == SubSeq(stdin.rest, 1, n)
           lines == SplitLines(stdin.buffer \o chunk)
       IN  stdin' = [stdin EXCEPT
                        !.rest = SubSeq(stdin.rest, n + 1, Len(stdin.rest)),
                        !.buffer = BufferAfter(lines),
                        !.handed = @ \o HandLines(
                                     SubSeq(lines, 1, Len(lines) - 1), 1)]
    /\ UNCHANGED <<config, sessionId, units, stdout, stdoutDestroyed, exited>>

\* the 'end' handler (bridge.ts:80-86)
StdinEnd ==
    /\ ~stdin.ended
    /\ stdin.rest = <<>>
    /\ stdin' = [stdin EXCEPT
                    !.ended = TRUE,
                    !.handed = IF Trim(stdin.buffer) # <<>>
                               THEN Append(@, Trim(stdin.buffer))
                               ELSE @]
    /\ UNCHANGED <<config, sessionId, units, stdout, stdoutDestroyed, exited>>

InitFramer ==
    /\ config = [retries |-> MaxRetries, verbose |-> FALSE]
    /\ sessionId = JNull
    /\ units = <<>>
    /\ stdout = <<>>
    /\ stdoutDestroyed = FALSE
    /\ exited = FALSE
    /\ stdin \in {Framer(input) : input \in FramerInputs}

NextFramer ==
    \/ \E n \in 1 .. MaxInput : StdinData(n)
    \/ StdinEnd

SpecFramer == InitFramer /\ [][NextFramer]_vars

(***************************************************************************)
(* SpecSse: one unit, answered by an upstream that sends event streams of  *)
(* up to MaxSseLines lines.                                                *)
(***************************************************************************)
\* {"x"
TxtObjHead ==
    <<"{", "\"", "x", "\"">>
\* :1}
TxtObjTail ==
    <<":", "1", "}">>
\* : ping
SseComment ==
    <<":", " ", "p", "i", "n", "g">>

\* the lines of the event streams: data lines with a whole document, with
\* the two halves of one, the sentinel, an empty line and a comment
SseLines ==
    {DataPrefix \o TxtObjHead, DataPrefix \o TxtObjTail,
     DataPrefix \o TxtObj, DataPrefix \o TxtArr,
     DataPrefix \o DoneMarker, <<>>, SseComment}

SseLineSeqs ==
    UNION {[1 .. n -> SseLines] : n \in 1 .. MaxSseLines}

\* the lines joined by the terminator
RECURSIVE JoinLines(_)
JoinLines(ls) ==
    IF Len(ls) = 0 THEN <<>>
    ELSE IF Len(ls) = 1 THEN ls[1]
    ELSE ls[1] \o <<"\n">> \o JoinLines(Tail(ls))

SseOutcomes ==
    {[kind |-> "ok", session |-> Undefined, contentType |-> SseType,
      body |-> JoinLines(ls)] : ls \in SseLineSeqs}

InitSse ==
    /\ config \in [retries : {1, 2}, verbose : BOOLEAN]
    /\ sessionId = JNull
    /\ units = <<>>
    /\ stdout = <<>>
    /\ stdoutDestroyed = FALSE
    /\ exited = FALSE
    /\ stdin = Framer(<<>>)

NextSse ==
    \/ units = <<>> /\ Dispatch(ReqId1, "ok")
    \/ \E o \in SseOutcomes : HttpSuccess(1, o, "ok")

SpecSse == InitSse /\ [][NextSse]_vars

(***************************************************************************)
(* What the claims speak about.                                            *)
(***************************************************************************)
Units == DOMAIN units

\* the unit's text parsed as JSON
Parsed(u) == units[u].req # Undefined

\* the parsed unit is an object with an id member
HasId(u) == units[u].req.t = "obj" /\ "id" \in DOMAIN units[u].req.o

\* the parsed unit is an object without an id member: a notification
IsNotification(u) == units[u].req.t = "obj" /\ "id" \notin DOMAIN units[u].req.o

\* the positions in stdout of the lines written for unit u
LinesFor(u) == {i \in DOMAIN stdout : stdout[i].unit = u}

\* the id member of a line, undefined when it has none
IdOf(msg) == IF "id" \in DOMAIN msg.o THEN msg.o.id ELSE Undefined

\* exactly one line was written for unit u, and it carries the unit's id
OneLineWithSameId(u) ==
    /\ Cardinality(LinesFor(u)) = 1
    /\ \A i \in LinesFor(u) : IdOf(stdout[i].msg) = units[u].req.o.id

\* the relay call of unit u was answered by a 2xx response
RelaySucceeded(u) == units[u].pc = "done" /\ units[u].relay.kind = "return"

\* a payload that is a non-empty object, a non-empty array or a non-empty
\* string
NonEmptyPayload(d) ==
    \/ d.t = "obj" /\ DOMAIN d.o # {}
    \/ d.t = "arr" /\ Len(d.a) > 0
    \/ d.t = "text" /\ Len(d.c) > 0
    \/ d.t = "str" /\ d.s # ""

(***************************************************************************)
(* C1, as stated: for every unit that parses and has an id, if the         *)
(* upstream call succeeds and returns any non-empty body, exactly one      *)
(* line is written for the unit and it carries the unit's id.              *)
(***************************************************************************)
C1_AnyNonEmptyBody ==
    \A u \in Units :
        (Parsed(u) /\ HasId(u) /\ RelaySucceeded(u)
            /\ units[u].resp.body # <<>>)
        => OneLineWithSameId(u)

(***************************************************************************)
(* C1, amended: for every unit that parses and has an id, if the upstream  *)
(* call succeeds and the normalized payload is a non-empty object, a       *)
(* non-empty array or a non-empty string, exactly one line is written for  *)
(* the unit and it carries the unit's id.                                  *)
(***************************************************************************)
C1_NonEmptyPayload ==
    \A u \in Units :
        (Parsed(u) /\ HasId(u) /\ RelaySucceeded(u)
            /\ NonEmptyPayload(units[u].relay.v))
        => OneLineWithSameId(u)

\* two units with different ids, each answered by its own line after a 2xx
\* response with a non-empty payload, the second one first
C1_Witness ==
    /\ Len(units) = 2
    /\ \A u \in Units :
          /\ Parsed(u) /\ HasId(u) /\ RelaySucceeded(u)
          /\ NonEmptyPayload(units[u].relay.v)
    /\ Len(stdout) = 2
    /\ stdout[1].unit = 2
    /\ IdOf(stdout[1].msg) = JNum(2)
    /\ IdOf(stdout[2].msg) = JNum(1)

(***************************************************************************)
(* C2: for every unit that parses and has no id (a notification), no line  *)
(* is written, whatever the upstream does (a 2xx with or without a body,   *)
(* a 4xx, a 5xx or a network failure on every attempt).  Stated for the    *)
(* notifications that were posted to the upstream.                         *)
(***************************************************************************)
C2_NoReplyToNotification ==
    \A u \in Units :
        (Parsed(u) /\ IsNotification(u) /\ units[u].posts >= 1)
        => LinesFor(u) = {}

\* the post of unit u settles, one way or the other
HttpSettles(u) ==
    \/ \E o \in OkOutcomes : HttpSuccess(u, o, "ok")
    \/ \E o \in FailOutcomes : HttpFailure(u, o, "ok")

\* the relay call of unit u failed: a post was answered by a 4xx, or the
\* last permitted post by a 5xx or a network failure
RelayFailed(u) ==
    /\ units[u].pc = "done"
    /\ units[u].relay.kind = "throw"
    /\ units[u].relay.v # Undefined

ErrorCodeOf(msg) ==
    IF "error" \in DOMAIN msg.o /\ "code" \in DOMAIN msg.o.error.o
    THEN msg.o.error.o.code.n ELSE 0

\* the line is an error reply built from a relay failure
IsRelayErrorReply(msg) ==
    /\ "error" \in DOMAIN msg.o
    /\ "result" \notin DOMAIN msg.o
    /\ ErrorCodeOf(msg) \in {-32000, -32001, -32002, -32603}

(***************************************************************************)
(* C3: every parsed unit with an id whose relay call fails (4xx, 5xx or    *)
(* network failure on the last attempt) has exactly one reply, an error    *)
(* reply with its id and not a -32700 parse error, written in the step in  *)
(* which the call fails; the process has not exited and the next unit can  *)
(* still be dispatched.  No worker is ever stuck on the way there: a post  *)
(* in flight can settle, a sleep can end, and no worker posts more than    *)
(* config.retries times, so every run of a worker is finite.               *)
(***************************************************************************)
C3_FailureAnswered ==
    /\ ~exited
    /\ \A u \in Units :
          /\ (Parsed(u) /\ HasId(u) /\ RelayFailed(u))
             => /\ OneLineWithSameId(u)
                /\ \A i \in LinesFor(u) : IsRelayErrorReply(stdout[i].msg)
          /\ units[u].pc = "http" => ENABLED HttpSettles(u)
          /\ units[u].pc = "sleep" => ENABLED SleepDone(u)
          /\ units[u].posts <= IF config.retries > 0 THEN config.retries ELSE 0
    /\ ((\E u \in Units : RelayFailed(u)) /\ Len(units) < MaxUnits)
       => ENABLED (\E line \in RequestLines(Len(units) + 1) :
                       Dispatch(line, "ok"))

\* the first unit failed with a 5xx on each of several attempts and got its
\* error reply; the second unit was answered after it
C3_Witness ==
    /\ Len(units) = 2
    /\ Parsed(1) /\ HasId(1) /\ RelayFailed(1)
    /\ units[1].posts >= 2
    /\ Truthy(units[1].relay.v.response)
    /\ Parsed(2) /\ HasId(2) /\ RelaySucceeded(2)
    /\ Len(stdout) = 2
    /\ stdout[1].unit = 1 /\ IsRelayErrorReply(stdout[1].msg)
    /\ stdout[2].unit = 2 /\ "result" \in DOMAIN stdout[2].msg.o

(***************************************************************************)
(* C4: every line written for a parsed unit in one of the three paths (the *)
(* upstream reply re-stamped, the payload wrapped, the error reply built   *)
(* from a relay failure) carries exactly the unit's id, and no id when the *)
(* unit has none.                                                          *)
(***************************************************************************)
C4_IdEchoed ==
    \A i \in DOMAIN stdout :
        LET u == stdout[i].unit
        IN  (Parsed(u) /\ (RelaySucceeded(u) \/ RelayFailed(u)))
            => IdOf(stdout[i].msg) = Member(units[u].req, "id")

\* the first unit got the upstream's full reply, whose own id was 9,
\* re-stamped; the second got a reply without id re-stamped or an error reply
C4_Witness ==
    /\ Len(units) = 2 /\ Len(stdout) = 2
    /\ HasId(1) /\ RelaySucceeded(1)
    /\ Member(units[1].relay.v, "id") = JNum(9)
    /\ \A i \in LinesFor(1) :
          /\ IdOf(stdout[i].msg) = JNum(1)
          /\ stdout[i].msg.o.result = JNum(7)
    /\ HasId(2) /\ RelayFailed(2)
    /\ \A i \in LinesFor(2) :
          IdOf(stdout[i].msg) = JNum(2) /\ IsRelayErrorReply(stdout[i].msg)

(***************************************************************************)
(* C5: a relay call keeps attempting while the outcome is a 5xx or a       *)
(* network failure and fewer than config.retries attempts were made: a     *)
(* success at attempt k ends the call after exactly k posts; a retryable   *)
(* failure before the last permitted attempt leads to a sleep and then to  *)
(* the next post; retryable failures on every attempt end the call after   *)
(* exactly config.retries posts with the failure of the last attempt, and  *)
(* a 503 gives an error reply with code -32000.                            *)
(***************************************************************************)
\* the failure is a 5xx or a network failure
Retryable(e) ==
    /\ e # Undefined
    /\ Truthy(e.response) => e.response.status \notin 400 .. 499

\* the relay call of unit u was made
Relayed(u) == Parsed(u) /\ units[u].relay.kind # "none" /\ config.retries >= 1

C5_Counts ==
    \A u \in Units :
        Relayed(u) =>
            /\ units[u].posts = units[u].attempt
            /\ units[u].attempt \in 1 .. config.retries
            /\ Len(units[u].delays) =
                  IF units[u].pc = "sleep" THEN units[u].attempt
                  ELSE units[u].attempt - 1
            /\ (RelayFailed(u) /\ Retryable(units[u].relay.v))
               => /\ units[u].posts = config.retries
                  /\ units[u].relay.v = units[u].lastError
            /\ (RelayFailed(u) /\ HasId(u)
                    /\ units[u].relay.v = HttpError(503))
               => \A i \in LinesFor(u) :
                     /\ ErrorCodeOf(stdout[i].msg) = -32000
                     /\ stdout[i].msg.o.error.o.message =
                           JStr("HTTP 503: Service Unavailable")

C5_Step ==
    \A u \in Units :
        /\ (units[u].pc = "http" /\ units'[u].pc # "http")
           => \/ /\ units'[u].relay.kind = "return"
                 /\ units'[u].pc = "done"
                 /\ units'[u].posts = units[u].attempt
              \/ /\ units'[u].relay.kind # "return"
                 /\ IF Retryable(units'[u].lastError)
                       /\ units[u].attempt < config.retries
                    THEN /\ units'[u].pc = "sleep"
                         /\ units'[u].relay.kind = "pending"
                    ELSE /\ units'[u].pc = "done"
                         /\ units'[u].relay = Throw(units'[u].lastError)
                         /\ units'[u].posts = units[u].attempt
        /\ (units[u].pc = "sleep" /\ units'[u] # units[u])
           => /\ units'[u].pc = "http"
              /\ units'[u].attempt = units[u].attempt + 1
              /\ units'[u].posts = units[u].posts + 1

C5_RetryUntilLastAttempt == []C5_Counts /\ [][C5_Step]_vars

\* with three attempts configured: one unit succeeded at its third post, the
\* other failed with a 503 at its third post and got the -32000 reply
C5_Witness ==
    /\ config.retries = 3
    /\ Len(units) = 2
    /\ RelaySucceeded(1) /\ units[1].posts = 3
    /\ units[1].delays = <<1000, 2000>>
    /\ HasId(2) /\ RelayFailed(2) /\ units[2].posts = 3
    /\ units[2].relay.v = HttpError(503)
    /\ \A i \in LinesFor(2) : ErrorCodeOf(stdout[i].msg) = -32000
    /\ LinesFor(2) # {}

(***************************************************************************)
(* C6: when an attempt gets a status in [400,500), the call ends in that   *)
(* step: no further post, no delay, and a unit with an id gets exactly     *)
(* one error reply with code -32000 and its id; also on a later attempt.   *)
(***************************************************************************)
ClientFailure(e) ==
    e # Undefined /\ Truthy(e.response) /\ e.response.status \in 400 .. 499

C6_State ==
    \A u \in Units :
        (Relayed(u) /\ ClientFailure(units[u].lastError))
        => /\ units[u].pc = "done"
           /\ units[u].relay = Throw(units[u].lastError)
           /\ Len(units[u].delays) = units[u].posts - 1
           /\ HasId(u)
              => /\ OneLineWithSameId(u)
                 /\ \A i \in LinesFor(u) :
                       /\ ErrorCodeOf(stdout[i].msg) = -32000
                       /\ "result" \notin DOMAIN stdout[i].msg.o

C6_Step ==
    \A u \in Units :
        (units[u].pc = "http" /\ units'[u] # units[u]
            /\ ClientFailure(units'[u].lastError))
        => /\ units'[u].pc = "done"
           /\ units'[u].posts = units[u].posts
           /\ units'[u].delays = units[u].delays
           /\ HasId(u) => /\ Len(stdout') = Len(stdout) + 1
                          /\ stdout'[Len(stdout')].unit = u

C6_ClientErrorNotRetried == []C6_State /\ [][C6_Step]_vars

\* a 4xx on the second attempt, after one retryable failure and one delay
C6_Witness ==
    \E u \in Units :
        /\ HasId(u) /\ RelayFailed(u)
        /\ ClientFailure(units[u].relay.v)
        /\ units[u].posts = 2
        /\ units[u].delays = <<1000>>
        /\ config.retries = 3
        /\ OneLineWithSameId(u)

(***************************************************************************)
(* C7: every post that starts while the session token is set carries the   *)
(* session header with the current token, for every unit and every         *)
(* attempt; a post that starts while no token is set carries none.         *)
(***************************************************************************)
PostsBefore(u) == IF u \in DOMAIN units THEN units[u].posts ELSE 0

C7_Step ==
    \A u \in DOMAIN units' :
        units'[u].posts = PostsBefore(u) + 1
        => units'[u].hdr = IF sessionId # JNull THEN sessionId ELSE Undefined

C7_HeaderOnEveryPost == [][C7_Step]_vars

\* the first unit was posted without header and its response set the
\* token; the second unit is at a retry that carries the token
C7_Witness ==
    /\ Len(units) = 2
    /\ units[1].hdr = Undefined /\ RelaySucceeded(1)
    /\ sessionId = JStr("s1")
    /\ units[2].pc = "http" /\ units[2].attempt = 2
    /\ units[2].hdr = JStr("s1")

(***************************************************************************)
(* C8: once the session token is set it keeps its value: no step changes   *)
(* it.                                                                     *)
(***************************************************************************)
C8_Step == sessionId # JNull => sessionId' = sessionId

C8_TokenNeverOverwritten == [][C8_Step]_vars

\* a response carrying another token was processed while the token was set
\* (its post already carried the token), and the token is unchanged
C8_Witness ==
    /\ sessionId = JStr("s1")
    /\ \E u \in Units :
          /\ RelaySucceeded(u)
          /\ units[u].hdr = JStr("s1")
          /\ units[u].resp.session = JStr("s2")

(***************************************************************************)
(* C9: the session token changes only from unset to a value, only in a     *)
(* step that processes a 2xx response with a non-empty session header, and *)
(* it then equals that header; every other step leaves it unchanged.       *)
(***************************************************************************)
C9_Step ==
    sessionId' # sessionId
    => /\ sessionId = JNull
       /\ sessionId'.t = "str" /\ sessionId'.s # ""
       /\ \E u \in Units :
             /\ units[u].pc = "http"
             /\ units'[u].pc = "done"
             /\ units'[u].relay.kind = "return"
             /\ units'[u].resp.session = sessionId'

C9_TokenSetOnlyFromHeader == [][C9_Step]_vars

\* the token was set from the header of a unit's response; a response with
\* an empty header and a failed call left it unset before
C9_Witness ==
    /\ Len(units) = 2
    /\ RelayFailed(1)
    /\ RelaySucceeded(2) /\ units[2].hdr = Undefined
    /\ units[2].resp.session = JStr("s2")
    /\ sessionId = JStr("s2")

(***************************************************************************)
(* C10: a unit that does not parse as JSON gets exactly one line, the      *)
(* error -32700 "Invalid JSON-RPC request" without id; it is never posted; *)
(* and the step that handles it leaves the session token, the other        *)
(* workers and the lines already written as they were.                     *)
(***************************************************************************)
C10_State ==
    \A u \in Units :
        ~Parsed(u)
        => /\ units[u].pc = "done"
           /\ units[u].posts = 0
           /\ units[u].relay.kind = "none"
           /\ Cardinality(LinesFor(u)) = 1
           /\ \A i \in LinesFor(u) :
                 /\ DOMAIN stdout[i].msg.o = {"jsonrpc", "error"}
                 /\ ErrorCodeOf(stdout[i].msg) = -32700
                 /\ stdout[i].msg.o.error.o.message =
                       JStr("Invalid JSON-RPC request")

C10_Step ==
    (Len(units') = Len(units) + 1 /\ units'[Len(units')].req = Undefined)
    => /\ sessionId' = sessionId
       /\ \A v \in Units : units'[v] = units[v]
       /\ SubSeq(stdout', 1, Len(stdout)) = stdout
       /\ Len(stdout') = Len(stdout) + 1
       /\ ~exited'

C10_ParseErrorIsLocal == []C10_State /\ [][C10_Step]_vars

\* a unit that did not parse arrived while the first unit was in flight; the
\* first unit was answered afterwards
C10_Witness ==
    /\ Len(units) = 2
    /\ Parsed(1) /\ HasId(1) /\ RelaySucceeded(1)
    /\ ~Parsed(2)
    /\ Len(stdout) = 2
    /\ stdout[1].unit = 2
    /\ stdout[2].unit = 1 /\ IdOf(stdout[2].msg) = JNum(1)

(***************************************************************************)
(* C11: every line written has exactly one of the members result and       *)
(* error, never both and never neither, whatever the upstream payload was. *)
(***************************************************************************)
C11_ExactlyOneOfResultError ==
    \A i \in DOMAIN stdout :
        ("result" \in DOMAIN stdout[i].msg.o)
            # ("error" \in DOMAIN stdout[i].msg.o)

(***************************************************************************)
(* C12: once the downstream has closed, a step in which a reply is due     *)
(* for a unit (the unit did not parse, or it has an id and its relay call  *)
(* failed or returned a non-empty payload) terminates the process.         *)
(***************************************************************************)
\* handleMCPRequest has a reply to write for the worker rec
ReplyDue(rec) ==
    \/ rec.req = Undefined
    \/ /\ rec.req.t = "obj" /\ "id" \in DOMAIN rec.req.o
       /\ \/ rec.relay.kind = "throw" /\ rec.relay.v # Undefined
          \/ rec.relay.kind = "return" /\ NonEmptyPayload(rec.relay.v)

\* the worker u ends in this step
EndsNow(u) ==
    /\ units'[u].pc = "done"
    /\ u \in DOMAIN units => units[u].pc # "done"

C12_Step ==
    \A u \in DOMAIN units' :
        (stdoutDestroyed /\ EndsNow(u) /\ ReplyDue(units'[u])) => exited'

C12_WriteToClosedSinkExits == [][C12_Step]_vars

(***************************************************************************)
(* C13: a unit that arrives while an earlier unit waits on a post or on a  *)
(* sleep can be dispatched at once; its dispatch issues its first post in  *)
(* the same step and leaves the earlier workers as they are; workers are   *)
(* numbered in the order of their dispatch; the reply of a later unit may  *)
(* be written before the reply of an earlier one.                          *)
(***************************************************************************)
C13_State ==
    (~exited /\ Len(units) < MaxUnits)
    => ENABLED (\E line \in RequestLines(Len(units) + 1) :
                    Dispatch(line, "ok"))

C13_Step ==
    Len(units') # Len(units)
    => /\ Len(units') = Len(units) + 1
       /\ \A v \in Units : units'[v] = units[v]
       /\ LET rec == units'[Len(units')]
          IN  (rec.req # Undefined /\ rec.req.t = "obj"
                  /\ config.retries >= 1)
              => /\ rec.pc = "http"
                 /\ rec.posts = 1
                 /\ rec.attempt = 1
                 /\ rec.delays = <<>>

C13_DispatchNotBlocked == []C13_State /\ [][C13_Step]_vars

\* the first unit is still in its sleep; the second, dispatched meanwhile,
\* was posted and has its reply on stdout, the first has none
C13_Witness ==
    /\ Len(units) = 2
    /\ units[1].pc = "sleep"
    /\ LinesFor(1) = {}
    /\ units[2].pc = "done" /\ units[2].posts = 1
    /\ HasId(2)
    /\ OneLineWithSameId(2)

ExpectedError(e) ==
    IF e.response # Undefined
    THEN [code |-> JNum(-32000),
          message |->
              JStr(CASE e.response.status = 400 -> "HTTP 400: Bad Request"
                     [] e.response.status = 499 ->
                            "HTTP 499: Client Closed Request"
                     [] e.response.status = 500 ->
                            "HTTP 500: Internal Server Error"
                     [] e.response.status = 503 ->
                            "HTTP 503: Service Unavailable"),
          data |-> e.response.data]
    ELSE IF e.code = JStr("ECONNREFUSED")
    THEN [code |-> JNum(-32001),
          message |-> JStr("Service unavailable - connection refused")]
    ELSE IF e.code = JStr("ETIMEDOUT")
    THEN [code |-> JNum(-32002), message |-> JStr("Service timeout")]
    ELSE [code |-> JNum(-32603), message |-> e.message, data |-> e.stack]

C16_CodeByFailureKind ==
    \A u \in Units :
        (Parsed(u) /\ units[u].req.t = "obj" /\ RelayFailed(u))
        => /\ Cardinality(LinesFor(u)) = 1
           /\ \A i \in LinesFor(u) :
                 /\ "error" \in DOMAIN stdout[i].msg.o
                 /\ stdout[i].msg.o.error.o = ExpectedError(units[u].relay.v)

\* a timeout answered with -32002 and a DNS failure answered with -32603
C16_Witness ==
    /\ Len(units) = 2
    /\ RelayFailed(1) /\ units[1].relay.v.code = JStr("ETIMEDOUT")
    /\ RelayFailed(2) /\ units[2].relay.v.code = JStr("ENOTFOUND")
    /\ Len(stdout) = 2
    /\ \A i \in LinesFor(1) : ErrorCodeOf(stdout[i].msg) = -32002
    /\ \A i \in LinesFor(2) :
          /\ ErrorCodeOf(stdout[i].msg) = -32603
          /\ stdout[i].msg.o.error.o.message = JStr("network: ENOTFOUND")

(***************************************************************************)
(* C17: when the upstream answers 2xx with an empty payload (an empty raw  *)
(* body, a body that parses to {}, an event stream without data lines), no *)
(* line is written for the unit and the call ends without a retry, with    *)
(* the verbose switch on as well as off.                                   *)
(***************************************************************************)
\* the 2xx response of unit u carries an empty payload
EmptyPayloadResponse(u) ==
    /\ RelaySucceeded(u)
    /\ \/ units[u].resp.body = <<>>
       \/ units[u].resp.body = TxtEmptyObj
       \/ units[u].resp.contentType = SseType
             /\ units[u].resp.body = SseNoData

C17_EmptyPayloadWritesNothing ==
    \A u \in Units :
        EmptyPayloadResponse(u)
        => /\ LinesFor(u) = {}
           /\ units[u].posts = units[u].attempt

(***************************************************************************)
(* C18: a non-empty payload is emitted in exactly one of two ways: a       *)
(* payload with jsonrpc "2.0" and a result or an error member is emitted   *)
(* with all its members unchanged except id, which is the unit's id; any   *)
(* other object, array or raw text is emitted as                           *)
(* {jsonrpc: "2.0", id: the unit's id, result: payload}.                   *)
(***************************************************************************)
\* the payload d is shaped as a full reply
FullReplyShape(d) ==
    /\ d.t = "obj"
    /\ "jsonrpc" \in DOMAIN d.o
    /\ d.o.jsonrpc = JStr("2.0")
    /\ {"result", "error"} \cap DOMAIN d.o # {}

\* msg is the payload d with only its id replaced by id
SameButId(msg, d, id) ==
    /\ DOMAIN msg.o \ {"id"} = DOMAIN d.o \ {"id"}
    /\ \A k \in DOMAIN d.o \ {"id"} : msg.o[k] = d.o[k]
    /\ IdOf(msg) = id

\* msg is the payload d wrapped as the result of a reply with id
WrappedAs(msg, d, id) ==
    /\ DOMAIN msg.o \ {"id"} = {"jsonrpc", "result"}
    /\ msg.o.jsonrpc = JStr("2.0")
    /\ msg.o.result = d
    /\ IdOf(msg) = id

C18_TwoWayClassification ==
    \A u \in Units :
        (Parsed(u) /\ units[u].req.t = "obj" /\ RelaySucceeded(u)
            /\ NonEmptyPayload(units[u].relay.v))
        => /\ Cardinality(LinesFor(u)) = 1
           /\ \A i \in LinesFor(u) :
                 LET d == units[u].relay.v
                     id == Member(units[u].req, "id")
                 IN  IF FullReplyShape(d)
                     THEN SameButId(stdout[i].msg, d, id)
                     ELSE WrappedAs(stdout[i].msg, d, id)

(***************************************************************************)
(* C19: whatever the chunks, the texts handed to handleMCPRequest are the  *)
(* trimmed non-blank lines of the input in their order, each once: before  *)
(* the end of input, those of the terminated lines delivered so far, the   *)
(* unterminated tail being held in the buffer; after the end of input,     *)
(* those of the whole input, a non-blank unterminated remainder included.  *)
(***************************************************************************)
\* text without its blanks at both ends, scanned character by character
RECURSIVE Strip(_)
Strip(text) ==
    IF text = <<>> THEN <<>>
    ELSE IF Head(text) \in {" ", "\n"} THEN Strip(Tail(text))
    ELSE IF text[Len(text)] \in {" ", "\n"}
    THEN Strip(SubSeq(text, 1, Len(text) - 1))
    ELSE text

\* the scan of text from position i, cur being the line read so far:
\* the units of the terminated lines, and the unterminated tail
RECURSIVE ScanUnits(_, _, _, _)
ScanUnits(text, i, cur, acc) ==
    IF i > Len(text) THEN [units |-> acc, tail |-> cur]
    ELSE IF text[i] = "\n"
    THEN ScanUnits(text, i + 1, <<>>,
                   IF Strip(cur) = <<>> THEN acc ELSE Append(acc, Strip(cur)))
    ELSE ScanUnits(text, i + 1, Append(cur, text[i]), acc)

Delivered == SubSeq(stdin.input, 1, Len(stdin.input) - Len(stdin.rest))

C19_UnitsIndependentOfChunks ==
    LET sofar == ScanUnits(Delivered, 1, <<>>, <<>>)
    IN  /\ stdin.rest = SubSeq(stdin.input, Len(Delivered) + 1,
                               Len(stdin.input))
        /\ ~stdin.ended
           => /\ stdin.handed = sofar.units
              /\ stdin.buffer = sofar.tail
        /\ stdin.ended
           => /\ stdin.rest = <<>>
              /\ stdin.handed =
                    IF Strip(sofar.tail) = <<>> THEN sofar.units
                    ELSE Append(sofar.units, Strip(sofar.tail))

\* the input a, terminator, blank line, a without terminator: the first
\* line was handed over, the blank line skipped, and the remainder handed
\* over at the end of input
C19_Witness ==
    /\ stdin.input = <<"a", "\n", " ", "\n", "a">>
    /\ stdin.ended
    /\ stdin.handed = << <<"a">>, <<"a">> >>

(***************************************************************************)
(* C20: for an event-stream body the payload is the JSON value of the      *)
(* concatenation, in order, of the texts after "data: " of the data lines  *)
(* that come before the first [DONE] line: a document split over several  *)
(* data lines gives the value of the unsplit document, and nothing at or   *)
(* after the sentinel contributes.                                         *)
(***************************************************************************)
\* the text a line contributes: what follows "data: " on a data line,
\* nothing on any other line
DataOf(line) ==
    IF Len(line) >= 6 /\ SubSeq(line, 1, 6) = <<"d", "a", "t", "a", ":", " ">>
    THEN SubSeq(line, 7, Len(line))
    ELSE <<>>

IsSentinel(line) == DataOf(line) = <<"[", "D", "O", "N", "E", "]">>

\* the number of lines of ls before the first sentinel
RECURSIVE BeforeSentinel(_, _)
BeforeSentinel(ls, i) ==
    IF i > Len(ls) \/ IsSentinel(ls[i]) THEN i - 1
    ELSE BeforeSentinel(ls, i + 1)

\* the contributions of the first n lines of ls, concatenated
RECURSIVE ConcatData(_, _)
ConcatData(ls, n) ==
    IF n = 0 THEN <<>> ELSE ConcatData(ls, n - 1) \o DataOf(ls[n])

C20_SseConcatenation ==
    \A u \in Units :
        (RelaySucceeded(u) /\ units[u].resp.contentType = SseType)
        => \A ls \in SseLineSeqs :
              units[u].resp.body = JoinLines(ls)
              => LET cat == ConcatData(ls, BeforeSentinel(ls, 1))
                 IN  JSONParse(cat).ok => units[u].relay.v = JSONParse(cat).v

\* the document {"x":1} split over two data lines and followed by the
\* sentinel decodes to the value of the unsplit document
C20_Witness ==
    \E u \in Units :
        /\ RelaySucceeded(u)
        /\ units[u].resp.body =
              JoinLines(<<DataPrefix \o TxtObjHead, DataPrefix \o TxtObjTail,
                          DataPrefix \o DoneMarker>>)
        /\ units[u].relay.v = JObj([x |-> JNum(1)])
        /\ units[u].relay.v = JSONParse(TxtObj).v

(***************************************************************************)
(* C21: when the data accumulated from a 2xx event-stream response is not  *)
(* empty and does not parse as JSON, the relay call returns the            *)
(* placeholder {error: "Failed to parse SSE response"} without a further   *)
(* attempt, and a unit with an id gets exactly one line, with its id and   *)
(* with the placeholder as its result, not an error reply.                 *)
(***************************************************************************)
\* the data accumulated from the lines ls is not empty and is not JSON
UnparsableData(ls) ==
    LET cat == ConcatData(ls, BeforeSentinel(ls, 1))
    IN  cat # <<>> /\ ~JSONParse(cat).ok

C21_PlaceholderAsResult ==
    \A u \in Units :
        (RelaySucceeded(u) /\ HasId(u)
            /\ units[u].resp.contentType = SseType)
        => \A ls \in SseLineSeqs :
              (units[u].resp.body = JoinLines(ls) /\ UnparsableData(ls))
              => /\ units[u].relay.v =
                       JObj([error |-> JStr("Failed to parse SSE response")])
                 /\ units[u].posts = 1
                 /\ units[u].delays = <<>>
                 /\ OneLineWithSameId(u)
                 /\ \A i \in LinesFor(u) :
                       /\ DOMAIN stdout[i].msg.o = {"jsonrpc", "id", "result"}
                       /\ stdout[i].msg.o.result = units[u].relay.v

\* the first half of a document alone, with verbose logging on
C21_Witness ==
    /\ config.verbose
    /\ \E u \in Units :
          /\ RelaySucceeded(u) /\ HasId(u)
          /\ units[u].resp.body = DataPrefix \o TxtObjHead
          /\ \A i \in LinesFor(u) :
                stdout[i].msg.o.result =
                    JObj([error |-> JStr("Failed to parse SSE response")])
          /\ LinesFor(u) # {}

(***************************************************************************)
(* C22: a line with the error code -32700 is written only for a unit whose *)
(* text did not parse as JSON, and never for a unit for which a post was   *)
(* issued.                                                                 *)
(***************************************************************************)
C22_ParseErrorOnlyForUnparsed ==
    \A i \in DOMAIN stdout :
        ErrorCodeOf(stdout[i].msg) = -32700
        => /\ ~Parsed(stdout[i].unit)
           /\ units[stdout[i].unit].posts = 0

(***************************************************************************)
(* C23: the verbose switch does not change what is written to stdout: for  *)
(* every unit whose relay call has settled, the lines written for it are   *)
(* those that the same request and the same relay outcome give with the    *)
(* switch in its other position.                                           *)
(***************************************************************************)
\* what handleMCPRequest sends for unit u with the switch set to verbose
SentWith(u, verbose) ==
    ResponseToSend(processMCPRequest(units[u].req, units[u].relay, verbose))

C23_VerboseDoesNotChangeOutput ==
    \A u \in Units :
        (Parsed(u) /\ units[u].pc = "done"
            /\ units[u].relay.kind \in {"return", "throw"})
        => IF SentWith(u, ~config.verbose) = JNull
           THEN LinesFor(u) = {}
           ELSE /\ Cardinality(LinesFor(u)) = 1
                /\ \A i \in LinesFor(u) :
                      stdout[i].msg =
                          JSONStringify(SentWith(u, ~config.verbose))

(***************************************************************************)
(* C24: whatever config.retries is, zero and negative values included,     *)
(* every unit that parsed causes at least one post and at most             *)
(* max(1, retries) posts, and once its worker is over the relay call has   *)
(* returned a response or has thrown the error of a post that was made.    *)
(***************************************************************************)
C24_AtLeastOneAttempt ==
    \A u \in Units :
        Parsed(u)
        => /\ units[u].posts >= 1
           /\ units[u].posts <=
                 IF config.retries > 1 THEN config.retries ELSE 1
           /\ units[u].pc = "done"
              => \/ units[u].relay.kind = "return"
                 \/ /\ units[u].relay.kind = "throw"
                    /\ units[u].relay.v # Undefined
                    /\ units[u].relay.v = units[u].lastError

(***************************************************************************)
(* C25: the session header of a post is decided when the post is issued,   *)
(* not when the unit was dispatched: a retry issued after another unit's   *)
(* response has set the token carries the token although the unit's first  *)
(* post carried none; a post in flight keeps the header it was issued      *)
(* with; and as long as no response has set the token, no post of any      *)
(* unit carries a header.                                                  *)
(***************************************************************************)
C25_State ==
    /\ sessionId = JNull => \A u \in Units : units[u].hdr = Undefined
    /\ \A u \in Units :
          units[u].hdr # Undefined => units[u].hdr = sessionId

C25_Step ==
    \A u \in Units :
        /\ (units[u].pc = "sleep" /\ units'[u].pc = "http")
           => units'[u].hdr =
                 IF sessionId = JNull THEN Undefined ELSE sessionId
        /\ ~(units[u].pc = "sleep" /\ units'[u].pc = "http")
           => units'[u].hdr = units[u].hdr

C25_HeaderDecidedAtAttemptStart == []C25_State /\ [][C25_Step]_vars

\* A (unit 1) and B (unit 2) were both first posted without header; B's
\* response set the token while A was in its backoff sleep; A's second post
\* carries the token
C25_Witness ==
    /\ Len(units) = 2
    /\ units[2].hdr = Undefined /\ units[2].posts = 1
    /\ RelaySucceeded(2) /\ units[2].resp.session = JStr("s1")
    /\ sessionId = JStr("s1")
    /\ units[1].pc = "http" /\ units[1].posts = 2
    /\ units[1].delays = <<1000>>
    /\ units[1].hdr = JStr("s1")

=============================================================================
